---- MODULE Spec2Model ----
(***************************************************************************)
(* Model of src/main.py (Agent Crafter API): the persona responder behind  *)
(* POST /api/agent/respond and the diagnostics probe behind GET /test.     *)
(*                                                                         *)
(* Text is modelled as a sequence of strings.  A message is a sequence of  *)
(* one-character strings; a reply is the sequence of the template's        *)
(* literal pieces with the message's characters spliced in between, which  *)
(* is what the f-strings of the source build.  The emoji that open the     *)
(* status texts of /test are written [ok], [x] and [!].                    *)
(***************************************************************************)
EXTENDS Integers, Sequences, FiniteSets, TLC

VARIABLES reqs, probe

vars == <<reqs, probe>>

(***************************************************************************)
(* Bounds of the model.                                                    *)
(***************************************************************************)
\* longest message of a request handled alone
MaxLen == 3
\* longest message of a request handled concurrently with another
MaxConcLen == 1
\* longest collection listing the database handle returns
MaxColl == 11

\* the worker threads that run handlers side by side
Threads == {1, 2}

(***************************************************************************)
(* Text.                                                                   *)
(***************************************************************************)
Chars == {" ", "\n", "a", "<"}

\* the characters str.strip() removes, among Chars
Whitespace == {" ", "\n"}

RECURSIVE Strings(_)
Strings(n) ==
    IF n = 0 THEN {<<>>}
    ELSE LET shorter == Strings(n - 1)
         IN  shorter \cup {Append(s, c) : s \in {t \in shorter : Len(t) = n - 1}, c \in Chars}

Min(a, b) == IF a <= b THEN a ELSE b

\* s[:n]
Take(s, n) == SubSeq(s, 1, Min(n, Len(s)))

RECURSIVE lstrip(_)
lstrip(s) ==
    IF s # <<>> /\ Head(s) \in Whitespace THEN lstrip(Tail(s)) ELSE s

RECURSIVE rstrip(_)
rstrip(s) ==
    IF s # <<>> /\ s[Len(s)] \in Whitespace THEN rstrip(SubSeq(s, 1, Len(s) - 1)) ELSE s

\* str.strip()
strip(s) == rstrip(lstrip(s))

(***************************************************************************)
(* The request body and its validation (class AgentRequest).               *)
(***************************************************************************)
\* a key the JSON body does not have
Missing == "<missing>"
\* JSON null, Python None
Null == "<null>"

RoleLiterals == {"general", "student", "finance", "lawyer"}

\* the values a body may carry under "role"
RoleValues == RoleLiterals \cup {"admin", Null}

Str(s) == [kind |-> "str", val |-> s]
Absent == [kind |-> "missing"]
JsonNull == [kind |-> "null"]

ContextValues == {Missing, Null, "earlier turns"}

Bodies(n, contexts) ==
    [role : RoleValues \cup {Missing},
     message : {Absent, JsonNull} \cup {Str(s) : s \in Strings(n)},
     context : contexts]

\* as if the field were declared role: str = Field("general")
RoleValidates_AnyString(role) == role # Null

\* role: Literal["general", "student", "finance", "lawyer"] = Field("general")
RoleValidates(role) == role = Missing \/ role \in RoleLiterals

\* message: str = Field(..., min_length=1)
MessageValidates(m) == m.kind = "str" /\ Len(m.val) >= 1

Validates(body) == RoleValidates(body.role) /\ MessageValidates(body.message)

\* the validated request object
AgentRequest(body) ==
    [role |-> IF body.role = Missing THEN "general" ELSE body.role,
     message |-> body.message.val,
     context |-> IF body.context = Missing THEN Null ELSE body.context]

(***************************************************************************)
(* The four responders.                                                    *)
(***************************************************************************)
AgentResponse(role, reply, tips) ==
    [status |-> 200, role |-> role, reply |-> reply, tips |-> tips]

respond_general(message) ==
    AgentResponse(
        "general",
        <<"I'm your Agent Crafter assistant. Tell me what you want to achieve and I'll help break it down into clear steps. ",
          "You said: '">>
        \o message
        \o <<"'", ".", " Here's how we can proceed:">>,
        <<"Be specific about your goal and constraints",
          "Share any examples or formats you prefer",
          "We can iterate until it feels right">>)

\* as if the message were HTML-escaped before it is put in the template
respond_student_Escaped(message) ==
    AgentResponse(
        "student",
        <<"Let's approach this like a helpful study partner. We'll clarify the concept, give an example, and outline steps.\n\n",
          "Question/Topic: ">>
        \o [i \in 1..Len(message) |-> IF message[i] = "<" THEN "&lt;" ELSE message[i]]
        \o <<"\n", "\n",
             "1) Concept overview: In simple terms, this is about understanding the core idea and how it connects to related topics.\n",
             "2) Quick example: We'll use a small, concrete example to make it stick.\n",
             "3) Study steps: Read -> Summarize -> Practice -> Review.\n">>,
        <<"Ask for a practice question if you'd like",
          "Say 'explain like I'm 12' for simpler wording",
          "We can create flashcards from any topic">>)

respond_student(message) ==
    AgentResponse(
        "student",
        <<"Let's approach this like a helpful study partner. We'll clarify the concept, give an example, and outline steps.\n\n",
          "Question/Topic: ">>
        \o message
        \o <<"\n", "\n",
             "1) Concept overview: In simple terms, this is about understanding the core idea and how it connects to related topics.\n",
             "2) Quick example: We'll use a small, concrete example to make it stick.\n",
             "3) Study steps: Read -> Summarize -> Practice -> Review.\n">>,
        <<"Ask for a practice question if you'd like",
          "Say 'explain like I'm 12' for simpler wording",
          "We can create flashcards from any topic">>)

respond_finance(message) ==
    AgentResponse(
        "finance",
        <<"I am not a financial advisor, but I can offer general, educational guidance.\n\n",
          "Topic: ">>
        \o message
        \o <<"\n", "\n",
             "Framework:\n",
             "- Goal: Define time horizon and risk tolerance\n",
             "- Snapshot: Income, expenses, debts, and savings\n",
             "- Plan: Diversify, keep costs low, automate contributions\n",
             "- Risk note: Markets fluctuate; consider professional advice for decisions\n">>,
        <<"We can outline a sample budget or emergency fund plan",
          "Ask for pros and cons of an option",
          "Request a checklist you can follow">>)

respond_lawyer(message) ==
    AgentResponse(
        "lawyer",
        <<"I am not a lawyer, but I can provide general, educational information.\n\n",
          "Issue: ">>
        \o message
        \o <<"\n", "\n",
             "Consider:\n",
             "- Jurisdiction matters: laws vary by location\n",
             "- Definitions: clarify terms and parties involved\n",
             "- Process: typical steps, timelines, and documents\n",
             "- Disclaimer: For actionable advice, consult a licensed attorney\n">>,
        <<"Share your location to get more tailored general info",
          "Ask for a plain-language summary of key terms",
          "We can draft a generic template for learning purposes">>)

\* as if the lawyer branch were missing from the if-chain
dispatch_NoLawyer(role) ==
    IF role = "student" THEN "student"
    ELSE IF role = "finance" THEN "finance"
    ELSE "general"

\* as if the if-chain ended in the student responder
dispatch_DefaultStudent(role) ==
    IF role = "finance" THEN "finance"
    ELSE IF role = "lawyer" THEN "lawyer"
    ELSE IF role = "general" THEN "general"
    ELSE "student"

\* the if-chain of agent_respond: which responder a role selects
dispatch(role) ==
    IF role = "student" THEN "student"
    ELSE IF role = "finance" THEN "finance"
    ELSE IF role = "lawyer" THEN "lawyer"
    ELSE "general"

respond(persona, message) ==
    CASE persona = "student" -> respond_student(message)
      [] persona = "finance" -> respond_finance(message)
      [] persona = "lawyer" -> respond_lawyer(message)
      [] persona = "general" -> respond_general(message)

HTTPException(status_code, detail) == [status |-> status_code, detail |-> detail]

\* FastAPI's answer to a body that fails validation
RequestValidationError == [status |-> 422, detail |-> "validation error"]

(***************************************************************************)
(* One request in a worker thread.                                         *)
(***************************************************************************)
NoBody == [role |-> Missing, message |-> Absent, context |-> Missing]
NoReq == [role |-> Null, message |-> <<>>, context |-> Null]
NoResp == [status |-> 0]

Idle ==
    [pc |-> "idle", via |-> "none", body |-> NoBody, req |-> NoReq,
     message |-> <<>>, called |-> "none", resp |-> NoResp]

\* POST /api/agent/respond arrives: the body is validated into an AgentRequest
Receive(r, body) ==
    /\ reqs[r].pc = "idle"
    /\ reqs' = [reqs EXCEPT ![r] =
            IF Validates(body)
            THEN [Idle EXCEPT !.pc = "handler", !.via = "http", !.body = body,
                              !.req = AgentRequest(body)]
            ELSE [Idle EXCEPT !.pc = "done", !.via = "http", !.body = body,
                              !.resp = RequestValidationError]]
    /\ UNCHANGED probe

\* agent_respond called as a function, with a request object built without validation
DirectCall(r, req) ==
    /\ reqs[r].pc = "idle"
    /\ reqs' = [reqs EXCEPT ![r] = [Idle EXCEPT !.pc = "handler", !.via = "direct", !.req = req]]
    /\ UNCHANGED probe

\* as if the emptiness test read req.message instead of the stripped message
StripMessage_CheckRaw(r) ==
    /\ reqs[r].pc = "handler"
    /\ LET message == strip(reqs[r].req.message)
       IN  reqs' = [reqs EXCEPT ![r] =
               IF reqs[r].req.message = <<>>
               THEN [@ EXCEPT !.pc = "done", !.message = message,
                              !.resp = HTTPException(400, "Message cannot be empty")]
               ELSE [@ EXCEPT !.pc = "dispatch", !.message = message]]
    /\ UNCHANGED probe

\* message = req.message.strip(); if not message: raise HTTPException(400, ...)
StripMessage(r) ==
    /\ reqs[r].pc = "handler"
    /\ LET message == strip(reqs[r].req.message)
       IN  reqs' = [reqs EXCEPT ![r] =
               IF message = <<>>
               THEN [@ EXCEPT !.pc = "done", !.message = message,
                              !.resp = HTTPException(400, "Message cannot be empty")]
               ELSE [@ EXCEPT !.pc = "dispatch", !.message = message]]
    /\ UNCHANGED probe

\* as if the stripped message were kept in a module-level variable that the
\* thread that stripped last has overwritten
Dispatch_SharedMessage(r) ==
    /\ reqs[r].pc = "dispatch"
    /\ LET persona == dispatch(reqs[r].req.role)
           others == {q \in Threads \ {r} : reqs[q].pc \in {"dispatch", "done"} /\ reqs[q].message # <<>>}
           message == IF others = {} THEN reqs[r].message
                      ELSE reqs[CHOOSE q \in others : TRUE].message
       IN  reqs' = [reqs EXCEPT ![r] =
               [@ EXCEPT !.pc = "done", !.called = persona,
                         !.resp = respond(persona, message)]]
    /\ UNCHANGED probe

\* the if-chain on req.role and the call of the selected responder
Dispatch(r) ==
    /\ reqs[r].pc = "dispatch"
    /\ LET persona == dispatch(reqs[r].req.role)
       IN  reqs' = [reqs EXCEPT ![r] =
               [@ EXCEPT !.pc = "done", !.called = persona,
                         !.resp = respond(persona, reqs[r].message)]]
    /\ UNCHANGED probe

\* the response is sent; the thread's locals are gone
Close(r) ==
    /\ reqs[r].pc = "done"
    /\ reqs' = [reqs EXCEPT ![r] = Idle]
    /\ UNCHANGED probe

DirectRequests(n) ==
    [role : RoleValues, message : Strings(n), context : {Null}]

(***************************************************************************)
(* GET /test: the diagnostics probe (test_database).                       *)
(***************************************************************************)
\* str(e)[:50]
ErrCut == 50
\* collections[:10]
ColLimit == 10

\* the text of an exception: empty, short, and longer than the cut
ErrMsgs == {[i \in 1..n |-> "e"] : n \in {0, 1, ErrCut + 1}}

\* what db.list_collection_names() may return: names in some order
Listings ==
    {[i \in 1..n |-> i] : n \in 0..MaxColl} \cup {[i \in 1..n |-> n + 1 - i] : n \in 2..MaxColl}

\* what os.getenv gives: None, the empty string, or a value
EnvValues == {Null, "", "appdb"}

Envs == [DATABASE_URL : EnvValues, DATABASE_NAME : EnvValues]

NoWorld ==
    [import |-> "ok", msg |-> <<>>, db |-> "None", hasName |-> FALSE, name |-> "",
     listing |-> "ok", names |-> <<>>]

\* what "from database import db" and the handle do during one probe
Worlds ==
    \* the module is not importable
    {[NoWorld EXCEPT !.import = cls] : cls \in {"ModuleNotFoundError", "ImportError"}}
    \* importing the module raises something else
    \cup {[NoWorld EXCEPT !.import = "RuntimeError", !.msg = m] : m \in ErrMsgs}
    \* the module imports and db is None
    \cup {NoWorld}
    \* db is a handle and the listing succeeds
    \cup {[NoWorld EXCEPT !.db = "handle", !.hasName = h, !.name = IF h THEN "appdb" ELSE "",
                          !.names = l] : h \in BOOLEAN, l \in Listings}
    \* db is a handle and the listing raises
    \cup {[NoWorld EXCEPT !.db = "handle", !.hasName = h, !.name = IF h THEN "appdb" ELSE "",
                          !.listing = "raises", !.msg = m] : h \in BOOLEAN, m \in ErrMsgs}

IsImportError(cls) == cls \in {"ImportError", "ModuleNotFoundError"}
IsException(cls) == cls \in {"ImportError", "ModuleNotFoundError", "RuntimeError"}

NoExc == [cls |-> "none", msg |-> <<>>]
NoResponse == [backend |-> Null]
NoEnv == [DATABASE_URL |-> Null, DATABASE_NAME |-> Null]

ProbeIdle ==
    [pc |-> "idle", env |-> NoEnv, world |-> NoWorld, exc |-> NoExc, response |-> NoResponse]

\* GET /test arrives: response = {...}
ProbeBegin(env, world) ==
    /\ probe.pc = "idle"
    /\ probe' = [ProbeIdle EXCEPT
            !.pc = "import", !.env = env, !.world = world,
            !.response = [backend |-> "[ok] Running",
                          database |-> <<"[x] Not Available">>,
                          database_url |-> Null,
                          database_name |-> Null,
                          connection_status |-> "Not Connected",
                          collections |-> <<>>]]
    /\ UNCHANGED reqs

\* from database import db
ProbeImport ==
    /\ probe.pc = "import"
    /\ probe' = IF probe.world.import = "ok"
                THEN [probe EXCEPT !.pc = "handle"]
                ELSE [probe EXCEPT !.pc = "except",
                                   !.exc = [cls |-> probe.world.import, msg |-> probe.world.msg]]
    /\ UNCHANGED reqs

\* as if the else branch of "if db is not None" were missing
ProbeHandle_NoElse ==
    /\ probe.pc = "handle"
    /\ probe' = IF probe.world.db # "None"
                THEN [probe EXCEPT
                        !.pc = "list",
                        !.response.database = <<"[ok] Available">>,
                        !.response.database_url = "[ok] Configured",
                        !.response.database_name =
                            IF probe.world.hasName THEN probe.world.name ELSE "[ok] Connected",
                        !.response.connection_status = "Connected"]
                ELSE [probe EXCEPT !.pc = "env"]
    /\ UNCHANGED reqs

\* if db is not None: ... else: ...
ProbeHandle ==
    /\ probe.pc = "handle"
    /\ probe' = IF probe.world.db # "None"
                THEN [probe EXCEPT
                        !.pc = "list",
                        !.response.database = <<"[ok] Available">>,
                        !.response.database_url = "[ok] Configured",
                        !.response.database_name =
                            IF probe.world.hasName THEN probe.world.name ELSE "[ok] Connected",
                        !.response.connection_status = "Connected"]
                ELSE [probe EXCEPT
                        !.pc = "env",
                        !.response.database = <<"[!]  Available but not initialized">>]
    /\ UNCHANGED reqs

\* as if the listing were stored whole
ProbeList_NoSlice ==
    /\ probe.pc = "list"
    /\ probe' = IF probe.world.listing = "ok"
                THEN [probe EXCEPT
                        !.pc = "env",
                        !.response.collections = probe.world.names,
                        !.response.database = <<"[ok] Connected & Working">>]
                ELSE [probe EXCEPT !.pc = "except_list",
                                   !.exc = [cls |-> "RuntimeError", msg |-> probe.world.msg]]
    /\ UNCHANGED reqs

\* collections = db.list_collection_names(); response["collections"] = collections[:10]
ProbeList ==
    /\ probe.pc = "list"
    /\ probe' = IF probe.world.listing = "ok"
                THEN [probe EXCEPT
                        !.pc = "env",
                        !.response.collections = Take(probe.world.names, ColLimit),
                        !.response.database = <<"[ok] Connected & Working">>]
                ELSE [probe EXCEPT !.pc = "except_list",
                                   !.exc = [cls |-> "RuntimeError", msg |-> probe.world.msg]]
    /\ UNCHANGED reqs

\* the inner handler: except Exception as e
ProbeExceptList ==
    /\ probe.pc = "except_list"
    /\ probe' = IF IsException(probe.exc.cls)
                THEN [probe EXCEPT
                        !.pc = "env", !.exc = NoExc,
                        !.response.database =
                            <<"[!]  Connected but Error: ">> \o Take(probe.exc.msg, ErrCut)]
                ELSE [probe EXCEPT !.pc = "except"]
    /\ UNCHANGED reqs

\* as if the outer try had its "except ImportError" clause alone
ProbeExcept_ImportErrorOnly ==
    /\ probe.pc = "except"
    /\ probe' = IF IsImportError(probe.exc.cls)
                THEN [probe EXCEPT
                        !.pc = "env", !.exc = NoExc,
                        !.response.database =
                            <<"[x] Database module not found (run enable-database first)">>]
                ELSE [probe EXCEPT !.pc = "raised"]
    /\ UNCHANGED reqs

\* the outer handlers: except ImportError, except Exception as e
ProbeExcept ==
    /\ probe.pc = "except"
    /\ probe' = IF IsImportError(probe.exc.cls)
                THEN [probe EXCEPT
                        !.pc = "env", !.exc = NoExc,
                        !.response.database =
                            <<"[x] Database module not found (run enable-database first)">>]
                ELSE IF IsException(probe.exc.cls)
                THEN [probe EXCEPT
                        !.pc = "env", !.exc = NoExc,
                        !.response.database = <<"[x] Error: ">> \o Take(probe.exc.msg, ErrCut)]
                ELSE [probe EXCEPT !.pc = "raised"]
    /\ UNCHANGED reqs

\* the truth value of os.getenv(name)
Truthy(value) == value # Null /\ value # ""

\* as if the line that sets database_name from the environment were missing
ProbeEnv_UrlOnly ==
    /\ probe.pc = "env"
    /\ probe' = [probe EXCEPT
            !.pc = "returned",
            !.response.database_url =
                IF Truthy(probe.env.DATABASE_URL) THEN "[ok] Set" ELSE "[x] Not Set"]
    /\ UNCHANGED reqs

\* the two lines on the environment variables, and return response
ProbeEnv ==
    /\ probe.pc = "env"
    /\ probe' = [probe EXCEPT
            !.pc = "returned",
            !.response.database_url =
                IF Truthy(probe.env.DATABASE_URL) THEN "[ok] Set" ELSE "[x] Not Set",
            !.response.database_name =
                IF Truthy(probe.env.DATABASE_NAME) THEN "[ok] Set" ELSE "[x] Not Set"]
    /\ UNCHANGED reqs

\* the response is sent
ProbeClose ==
    /\ probe.pc = "returned"
    /\ probe' = ProbeIdle
    /\ UNCHANGED reqs

NextProbe ==
    \/ \E env \in Envs, world \in Worlds : ProbeBegin(env, world)
    \/ ProbeImport
    \/ ProbeHandle
    \/ ProbeList
    \/ ProbeExceptList
    \/ ProbeExcept
    \/ ProbeEnv
    \/ ProbeClose

Init ==
    /\ reqs = [r \in Threads |-> Idle]
    /\ probe = ProbeIdle

\* one request at a time, in thread 1
Next ==
    \/ \E body \in Bodies(MaxLen, ContextValues) : Receive(1, body)
    \/ \E req \in DirectRequests(MaxLen) : DirectCall(1, req)
    \/ StripMessage(1)
    \/ Dispatch(1)
    \/ Close(1)

Spec == Init /\ [][Next]_vars

\* requests in all threads, interleaved
NextConc ==
    \E r \in Threads :
        \/ \E body \in Bodies(MaxConcLen, {Missing}) : Receive(r, body)
        \/ StripMessage(r)
        \/ Dispatch(r)
        \/ Close(r)

SpecConc == Init /\ [][NextConc]_vars

SpecProbe == Init /\ [][NextProbe]_vars

(***************************************************************************)
(* Properties of POST /api/agent/respond.                                  *)
(***************************************************************************)
\* the tips of section 4.1, per persona, in order
FixedTips(persona) ==
    CASE persona = "general" ->
            <<"Be specific about your goal and constraints",
              "Share any examples or formats you prefer",
              "We can iterate until it feels right">>
      [] persona = "student" ->
            <<"Ask for a practice question if you'd like",
              "Say 'explain like I'm 12' for simpler wording",
              "We can create flashcards from any topic">>
      [] persona = "finance" ->
            <<"We can outline a sample budget or emergency fund plan",
              "Ask for pros and cons of an option",
              "Request a checklist you can follow">>
      [] persona = "lawyer" ->
            <<"Share your location to get more tailored general info",
              "Ask for a plain-language summary of key terms",
              "We can draft a generic template for learning purposes">>

\* the piece of the reply template the message follows, per persona
Label(persona) ==
    CASE persona = "general" -> "You said: '"
      [] persona = "student" -> "Question/Topic: "
      [] persona = "finance" -> "Topic: "
      [] persona = "lawyer" -> "Issue: "

\* the piece of the reply template that follows the message, per persona
Closing(persona) == IF persona = "general" THEN "'" ELSE "\n"

\* text m stands in the reply right after the label
ContainsAt(reply, label, m) ==
    \E i \in 1..Len(reply) :
        /\ reply[i] = label
        /\ i + Len(m) <= Len(reply)
        /\ SubSeq(reply, i + 1, i + Len(m)) = m

\* text m stands in the reply between the label and the template's next piece
DelimitedAt(reply, label, m, closing) ==
    \E i \in 1..Len(reply) :
        /\ reply[i] = label
        /\ i + Len(m) < Len(reply)
        /\ SubSeq(reply, i + 1, i + Len(m)) = m
        /\ reply[i + Len(m) + 1] = closing

AllWhitespace(m) == \A i \in 1..Len(m) : m[i] \in Whitespace

\* the texts that are m without its leading and trailing whitespace: m[i..j]
\* with whitespace alone before i and after j, and none at either end of m[i..j]
Trimmed(m) ==
    {SubSeq(m, i, j) : <<i, j>> \in
        {ij \in (1..(Len(m) + 1)) \X (0..Len(m)) :
            /\ AllWhitespace(SubSeq(m, 1, ij[1] - 1))
            /\ AllWhitespace(SubSeq(m, ij[2] + 1, Len(m)))
            /\ ij[1] <= ij[2] => (m[ij[1]] \notin Whitespace /\ m[ij[2]] \notin Whitespace)}}

Done(r) == reqs[r].pc = "done"
Posted(r) == reqs[r].via = "http"
Answered(r) == Done(r) /\ reqs[r].resp.status = 200

\* C1: a POST with one of the four roles and a message that is non-empty after
\* trimming is answered 200 with role = the requested role and tips = that
\* persona's 3 fixed tips, in order.
C1_RoleAndTips ==
    \A r \in Threads :
        (/\ Done(r) /\ Posted(r)
         /\ reqs[r].body.role \in RoleLiterals
         /\ reqs[r].body.message.kind = "str"
         /\ ~AllWhitespace(reqs[r].body.message.val))
        => /\ reqs[r].resp.status = 200
           /\ reqs[r].resp.role = reqs[r].body.role
           /\ Len(reqs[r].resp.tips) = 3
           /\ reqs[r].resp.tips = FixedTips(reqs[r].body.role)

C1_Witness ==
    \E r \in Threads :
        /\ Done(r) /\ Posted(r)
        /\ reqs[r].body.role = "lawyer"
        /\ reqs[r].body.message = Str(<<" ", "a", "\n">>)
        /\ reqs[r].resp.status = 200
        /\ reqs[r].resp.role = "lawyer"

\* C2 as stated: every POST whose message trims to empty (whitespace only, or
\* the empty string) is answered 400 "Message cannot be empty", no responder
\* invoked.
C2_AsStated ==
    \A r \in Threads :
        (/\ Done(r) /\ Posted(r)
         /\ reqs[r].body.message.kind = "str"
         /\ AllWhitespace(reqs[r].body.message.val))
        => /\ reqs[r].resp = [status |-> 400, detail |-> "Message cannot be empty"]
           /\ reqs[r].called = "none"

\* C2 amended: a POST that passes validation and whose message is whitespace
\* only (one character or more) is answered 400 "Message cannot be empty"; a
\* POST whose message is the empty string is answered 422 by validation; no
\* responder is invoked for either.
C2_EmptyMessage ==
    \A r \in Threads :
        (/\ Done(r) /\ Posted(r)
         /\ reqs[r].body.message.kind = "str"
         /\ AllWhitespace(reqs[r].body.message.val))
        => /\ reqs[r].called = "none"
           /\ (RoleValidates(reqs[r].body.role) /\ reqs[r].body.message.val # <<>>)
                => reqs[r].resp = [status |-> 400, detail |-> "Message cannot be empty"]
           /\ reqs[r].body.message.val = <<>> => reqs[r].resp.status = 422

C2_Witness ==
    \E r \in Threads :
        /\ Done(r) /\ Posted(r)
        /\ reqs[r].body.message = Str(<<" ", "\n">>)
        /\ reqs[r].resp.status = 400
        /\ reqs[r].called = "none"

\* C3 as stated: the reply of an answered request contains the message exactly
\* as sent, leading and trailing whitespace included, right after the label.
C3_AsStated ==
    \A r \in Threads :
        (Answered(r) /\ Posted(r)) =>
            ContainsAt(reqs[r].resp.reply, Label(reqs[r].resp.role),
                       reqs[r].body.message.val)

\* C3 amended: the reply of an answered request contains the message with its
\* leading and trailing whitespace removed, otherwise character for character
\* (inner whitespace and special characters kept), between the persona's label
\* and the template's next piece.
C3_TrimmedVerbatim ==
    \A r \in Threads :
        Answered(r) =>
            \E t \in Trimmed(reqs[r].req.message) :
                /\ t # <<>>
                /\ DelimitedAt(reqs[r].resp.reply, Label(reqs[r].resp.role), t,
                               Closing(reqs[r].resp.role))

C3_Witness ==
    \E r \in Threads :
        /\ Answered(r) /\ Posted(r)
        /\ reqs[r].body.message = Str(<<"<", "\n", "a">>)
        /\ reqs[r].resp.role = "student"
        /\ ContainsAt(reqs[r].resp.reply, "Question/Topic: ", <<"<", "\n", "a">>)

\* C4: the dispatch is total and defaults to general: a request without a role,
\* and any role other than student, finance or lawyer that reaches the
\* dispatcher, gets the general persona's response, and every role that
\* reaches the dispatcher leaves it with a response.
C4_DefaultGeneral ==
    \A r \in Threads :
        /\ reqs[r].pc = "dispatch" => ENABLED Dispatch(r)
        /\ (Done(r) /\ reqs[r].called # "none") =>
              /\ reqs[r].resp.status = 200
              /\ reqs[r].resp.role = reqs[r].called
              /\ reqs[r].req.role \notin {"student", "finance", "lawyer"} =>
                    /\ reqs[r].resp.role = "general"
                    /\ reqs[r].resp.tips = FixedTips("general")
                    /\ ContainsAt(reqs[r].resp.reply, Label("general"), reqs[r].message)
        /\ (Done(r) /\ Posted(r) /\ reqs[r].body.role = Missing
               /\ Validates(reqs[r].body) /\ ~AllWhitespace(reqs[r].body.message.val)) =>
              /\ reqs[r].resp.status = 200
              /\ reqs[r].resp.role = "general"
              /\ reqs[r].resp.tips = FixedTips("general")

C4_Witness ==
    \E r \in Threads :
        /\ Done(r)
        /\ reqs[r].via = "direct"
        /\ reqs[r].req.role = "admin"
        /\ reqs[r].resp.status = 200
        /\ reqs[r].resp.role = "general"

\* C6: a POST whose role is present but not one of the four literals, or whose
\* message is missing, is answered 422 at the boundary and never reaches the
\* handler or a responder.
C6_Rejected ==
    \A r \in Threads :
        (/\ Posted(r)
         /\ \/ reqs[r].body.role \notin RoleLiterals \cup {Missing}
            \/ reqs[r].body.message = Absent)
        => /\ Done(r)
           /\ reqs[r].resp.status = 422
           /\ reqs[r].called = "none"

C6_Witness ==
    \E r \in Threads :
        /\ Done(r) /\ Posted(r)
        /\ reqs[r].body.role = "admin"
        /\ reqs[r].body.message = Str(<<"a">>)
        /\ reqs[r].resp.status = 422

\* what agent_respond answers to a body when it is the only request there is
AnsweredAlone(body) ==
    IF ~Validates(body) THEN RequestValidationError
    ELSE IF AllWhitespace(body.message.val)
         THEN [status |-> 400, detail |-> "Message cannot be empty"]
         ELSE respond(dispatch(AgentRequest(body).role), strip(body.message.val))

\* a step changes the request of one thread at most
OneThreadSteps ==
    \A r, q \in Threads : (reqs'[r] # reqs[r] /\ q # r) => reqs'[q] = reqs[q]

\* a thread that takes a request starts from nothing of the request before
FreshLocals ==
    \A r \in Threads :
        (reqs[r].pc = "idle" /\ reqs'[r].pc # "idle") =>
            /\ reqs'[r].message = <<>>
            /\ reqs'[r].called = "none"
            /\ reqs'[r].pc = "handler" => reqs'[r].resp = NoResp

\* C5: under any interleaving of concurrent requests, the response of each is
\* the one its own role and message determine (the response it would get
\* alone); a step of one request changes nothing of another, and a thread
\* starts each request with no state of the one before.
C5_NoInterference ==
    /\ [](\A r \in Threads : Done(r) => reqs[r].resp = AnsweredAlone(reqs[r].body))
    /\ [][OneThreadSteps /\ FreshLocals]_vars

C5_Witness ==
    /\ Answered(1) /\ Answered(2)
    /\ reqs[1].body.role = "student" /\ reqs[1].body.message = Str(<<"a">>)
    /\ reqs[2].body.role = "finance" /\ reqs[2].body.message = Str(<<"<">>)
    /\ reqs[1].resp.role = "student" /\ reqs[2].resp.role = "finance"

(***************************************************************************)
(* Properties of GET /test.                                                *)
(***************************************************************************)
Returned == probe.pc = "returned"

SixFields ==
    {"backend", "database", "database_url", "database_name", "connection_status",
     "collections"}

ImportFailed == probe.world.import # "ok"
ModuleAbsent == probe.world.import \in {"ModuleNotFoundError", "ImportError"}
HandleNone == probe.world.import = "ok" /\ probe.world.db = "None"
HandlePresent == probe.world.import = "ok" /\ probe.world.db = "handle"
ListingWorked == HandlePresent /\ probe.world.listing = "ok"
ListingRaised == HandlePresent /\ probe.world.listing = "raises"

\* text d opens with piece p and goes on with at most ErrCut characters of msg
Describes(d, p, msg) ==
    /\ Len(d) >= 1 /\ d[1] = p
    /\ Len(d) - 1 <= ErrCut
    /\ Len(d) - 1 <= Len(msg)
    /\ \A i \in 2..Len(d) : d[i] = msg[i - 1]

\* C7: GET /test never raises past its boundary: whatever the probe meets
\* (module not importable, import raising another exception, handle None, handle
\* present with the listing succeeding or raising) the handler goes on to return
\* a response with the six fields, a failure showing only as a text in database.
C7_NeverRaises ==
    /\ probe.pc # "raised"
    /\ probe.pc \notin {"idle", "returned"} =>
          ENABLED (ProbeImport \/ ProbeHandle \/ ProbeList \/ ProbeExceptList
                   \/ ProbeExcept \/ ProbeEnv)
    /\ Returned =>
          /\ DOMAIN probe.response = SixFields
          /\ probe.exc = NoExc
          /\ probe.response.backend = "[ok] Running"
          /\ probe.response.connection_status \in {"Connected", "Not Connected"}
          /\ probe.response.database_url \in {"[ok] Set", "[x] Not Set"}
          /\ probe.response.database_name \in {"[ok] Set", "[x] Not Set"}
          /\ Len(probe.response.collections) <= Len(probe.world.names)
          /\ (probe.world.import = "RuntimeError") =>
                Describes(probe.response.database, "[x] Error: ", probe.world.msg)
          /\ ListingRaised =>
                Describes(probe.response.database, "[!]  Connected but Error: ",
                          probe.world.msg)

C7_Witness ==
    /\ Returned
    /\ probe.world.import = "RuntimeError"
    /\ Len(probe.world.msg) > ErrCut
    /\ Len(probe.response.database) = ErrCut + 1

\* C8 as stated: database_url and database_name say Set exactly when the
\* environment variable is present, whatever the import and the probe did.
C8_AsStated ==
    Returned =>
        /\ probe.response.database_url =
              IF probe.env.DATABASE_URL # Null THEN "[ok] Set" ELSE "[x] Not Set"
        /\ probe.response.database_name =
              IF probe.env.DATABASE_NAME # Null THEN "[ok] Set" ELSE "[x] Not Set"

\* C8 amended: database_url and database_name say Set exactly when the
\* environment variable is present with a non-empty value (absent, or set to the
\* empty string, reads Not Set), whatever the import and the probe did; neither
\* carries the variable's value, the handle's name or the Configured marker.
C8_EnvOnly ==
    Returned =>
        /\ probe.response.database_url =
              IF probe.env.DATABASE_URL \notin {Null, ""} THEN "[ok] Set" ELSE "[x] Not Set"
        /\ probe.response.database_name =
              IF probe.env.DATABASE_NAME \notin {Null, ""} THEN "[ok] Set" ELSE "[x] Not Set"
        /\ {probe.response.database_url, probe.response.database_name}
              \cap {probe.env.DATABASE_URL, probe.env.DATABASE_NAME, probe.world.name,
                    "[ok] Configured", "[ok] Connected"} = {}

C8_Witness ==
    /\ Returned
    /\ HandlePresent /\ probe.world.hasName /\ probe.world.name = "appdb"
    /\ probe.env.DATABASE_URL = "appdb" /\ probe.env.DATABASE_NAME = Null
    /\ probe.response.database_url = "[ok] Set"
    /\ probe.response.database_name = "[x] Not Set"

\* C9: the database field tells the three cases apart: module not importable ->
\* the module-not-found text; module imported, handle None -> the
\* available-but-not-initialized text; handle present -> a connected text; and
\* connection_status is Connected in the last case only.
C9_TriState ==
    Returned =>
        /\ ModuleAbsent =>
              /\ probe.response.database =
                    <<"[x] Database module not found (run enable-database first)">>
              /\ probe.response.connection_status = "Not Connected"
        /\ HandleNone =>
              /\ probe.response.database = <<"[!]  Available but not initialized">>
              /\ probe.response.connection_status = "Not Connected"
        /\ HandlePresent =>
              /\ probe.response.database[1] \in
                    {"[ok] Connected & Working", "[!]  Connected but Error: "}
              /\ probe.response.connection_status = "Connected"
        /\ probe.response.connection_status = "Connected" <=> HandlePresent

C9_Witness ==
    /\ Returned
    /\ HandleNone
    /\ probe.response.database = <<"[!]  Available but not initialized">>
    /\ probe.response.connection_status = "Not Connected"

\* C10: collections has at most 10 entries: the first 10 (or fewer) names of the
\* listing, in listing order, when the handle is present and the listing
\* succeeds; empty in every other case.
C10_Collections ==
    Returned =>
        /\ Len(probe.response.collections) <= 10
        /\ ListingWorked =>
              /\ Len(probe.response.collections) =
                    IF Len(probe.world.names) < 10 THEN Len(probe.world.names) ELSE 10
              /\ \A i \in 1..Len(probe.response.collections) :
                    probe.response.collections[i] = probe.world.names[i]
        /\ ~ListingWorked => probe.response.collections = <<>>

C10_Witness ==
    /\ Returned
    /\ ListingWorked
    /\ Len(probe.world.names) > 10
    /\ probe.world.names[1] > probe.world.names[2]
    /\ Len(probe.response.collections) = 10

====
